---------------------------- MODULE Spec2Model ----------------------------
(***************************************************************************)
(* A model of the text-to-EPUB pipeline of src/app.py: detect_encoding,    *)
(* clean_text, process_paragraphs, extract_metadata, detect_chapters,      *)
(* build_single_epub and convert_all_files.                                *)
(*                                                                         *)
(* A Python str is a sequence of characters, each character a one-element  *)
(* TLA+ string.  Characters outside ASCII are written as named tokens      *)
(* (one token = one character):                                            *)
(*   "JE" "HWA" "JANG" "PYEON"   the hangul of the chapter pattern         *)
(*   "SI" "JAK"                  the two characters of the "start" heading *)
(*   "BON" "MUN"                 the two characters of the "body" heading  *)
(*   "MI" "SANG"                 the two characters of the author sentinel *)
(*   "U+FFFD"                    the replacement character                 *)
(*   "U+2248" ...                the characters of the named entities      *)
(***************************************************************************)
EXTENDS Integers, Sequences, FiniteSets, TLC

-----------------------------------------------------------------------------
(* Python str primitives on character sequences.                           *)

\* str.strip() / str.split() whitespace (the members the model's texts use)
WS == {" ", "\t", "\n", "\r", "\f"}

RECURSIVE LStrip(_)
LStrip(s) == IF s # <<>> /\ Head(s) \in WS THEN LStrip(Tail(s)) ELSE s

RECURSIVE RStrip(_)
RStrip(s) ==
  IF s # <<>> /\ s[Len(s)] \in WS THEN RStrip(SubSeq(s, 1, Len(s) - 1)) ELSE s

\* str.strip()
Strip(s) == RStrip(LStrip(s))

\* whether sub occurs in s at position i (1-based)
StartsAt(s, sub, i) ==
  /\ i >= 1
  /\ i + Len(sub) - 1 <= Len(s)
  /\ SubSeq(s, i, i + Len(sub) - 1) = sub

\* str.find(sub), 1-based; 0 when sub does not occur
Find(s, sub) ==
  LET hits == {i \in 1..Len(s) : StartsAt(s, sub, i)}
  IN  IF hits = {} THEN 0 ELSE CHOOSE i \in hits : \A j \in hits : i <= j

\* sub in s
Contains(s, sub) == Find(s, sub) # 0

\* str.split(sep) for a non-empty separator: always at least one piece
RECURSIVE Split(_, _)
Split(s, sep) ==
  LET i == Find(s, sep)
  IN  IF i = 0 THEN <<s>>
      ELSE <<SubSeq(s, 1, i - 1)>> \o Split(SubSeq(s, i + Len(sep), Len(s)), sep)

\* str.split(sep, 1)
Split1(s, sep) ==
  LET i == Find(s, sep)
  IN  IF i = 0 THEN <<s>>
      ELSE <<SubSeq(s, 1, i - 1), SubSeq(s, i + Len(sep), Len(s))>>

\* sep.join(parts)
RECURSIVE Join(_, _)
Join(parts, sep) ==
  IF parts = <<>> THEN <<>>
  ELSE IF Len(parts) = 1 THEN parts[1]
  ELSE parts[1] \o sep \o Join(Tail(parts), sep)

\* str.split() with no argument: the whitespace-delimited words
RECURSIVE Words(_)
Words(s) ==
  LET t == LStrip(s)
      ends == {i \in 1..Len(t) : t[i] \in WS}
      e == IF ends = {} THEN Len(t) + 1
           ELSE CHOOSE i \in ends : \A j \in ends : i <= j
  IN  IF t = <<>> THEN <<>>
      ELSE <<SubSeq(t, 1, e - 1)>> \o Words(SubSeq(t, e, Len(t)))

\* str.replace(old, new)
RECURSIVE Replace(_, _, _)
Replace(s, old, new) ==
  LET i == Find(s, old)
  IN  IF i = 0 THEN s
      ELSE SubSeq(s, 1, i - 1) \o new
           \o Replace(SubSeq(s, i + Len(old), Len(s)), old, new)

\* str.splitlines(): line boundaries, no empty last line
SplitLines(s) ==
  LET parts == Split(s, <<"\n">>)
  IN  IF parts[Len(parts)] = <<>> THEN SubSeq(parts, 1, Len(parts) - 1)
      ELSE parts

-----------------------------------------------------------------------------
(* html.escape and html.unescape.                                          *)

\* html.escape(s) of one character (quote=True)
EscapeChar(c) ==
  CASE c = "&"  -> <<"&", "a", "m", "p", ";">>
    [] c = "<"  -> <<"&", "l", "t", ";">>
    [] c = ">"  -> <<"&", "g", "t", ";">>
    [] c = "\"" -> <<"&", "q", "u", "o", "t", ";">>
    [] c = "'"  -> <<"&", "#", "x", "2", "7", ";">>
    [] OTHER    -> <<c>>

\* html.escape(s)
RECURSIVE Escape(_)
Escape(s) == IF s = <<>> THEN <<>> ELSE EscapeChar(Head(s)) \o Escape(Tail(s))

\* The named character references that can be spelled with the letters
\* a, l, m, p, t (the letters of the model's texts), as html.entities.html5
\* lists them; a name without ";" is one of the legacy names.
NamedEntity(n) ==
  CASE n = <<"a", "m", "p">>           -> <<"&">>
    [] n = <<"a", "m", "p", ";">>      -> <<"&">>
    [] n = <<"l", "t">>                -> <<"<">>
    [] n = <<"l", "t", ";">>           -> <<"<">>
    [] n = <<"a", "p", ";">>           -> <<"U+2248">>
    [] n = <<"l", "a", "p", ";">>      -> <<"U+2A85">>
    [] n = <<"l", "a", "t", ";">>      -> <<"U+2AAB">>
    [] n = <<"l", "l", ";">>           -> <<"U+226A">>
    [] n = <<"m", "a", "l", "t", ";">> -> <<"U+2720">>
    [] n = <<"m", "a", "p", ";">>      -> <<"U+21A6">>
    [] n = <<"m", "p", ";">>           -> <<"U+2213">>
    [] n = <<"p", "m", ";">>           -> <<"U+00B1">>
    [] OTHER                           -> <<>>

\* the characters that end a reference name: [^\t\n\f <&#;]
NameStop == {"\t", "\n", "\f", " ", "<", "&", "#", ";"}

\* the length of the longest run of name characters at the head of s
RECURSIVE NameRun(_)
NameRun(s) ==
  IF s = <<>> \/ Head(s) \in NameStop THEN 0 ELSE 1 + NameRun(Tail(s))

\* html's replace_charref for a named reference n (the text after "&"):
\* the whole name, else its longest proper prefix of two characters or more
\* that is a name, else the text as it stands
ReplaceCharref(n) ==
  LET known == {x \in 2..(Len(n) - 1) : NamedEntity(SubSeq(n, 1, x)) # <<>>}
      x == CHOOSE y \in known : \A z \in known : z <= y
  IN  IF NamedEntity(n) # <<>> THEN NamedEntity(n)
      ELSE IF known # {} THEN NamedEntity(SubSeq(n, 1, x)) \o SubSeq(n, x + 1, Len(n))
      ELSE <<"&">> \o n

\* html.unescape(s): every "&name" or "&name;" is replaced, left to right, and
\* the replacement is not scanned again.  Numeric references ("&#...") are
\* outside the model's texts.
RECURSIVE Unescape(_)
Unescape(s) ==
  IF s = <<>> THEN <<>>
  ELSE IF Head(s) # "&" THEN <<Head(s)>> \o Unescape(Tail(s))
  ELSE LET r == NameRun(Tail(s))
           semi == IF r + 2 <= Len(s) /\ s[r + 2] = ";" THEN 1 ELSE 0
       IN  IF r = 0 THEN <<"&">> \o Unescape(Tail(s))
           ELSE ReplaceCharref(SubSeq(s, 2, r + 1 + semi))
                \o Unescape(SubSeq(s, r + 2 + semi, Len(s)))

-----------------------------------------------------------------------------
(* clean_text                                                              *)

\* the number of "\n" at the head of s
RECURSIVE NewlineRun(_)
NewlineRun(s) ==
  IF s = <<>> \/ Head(s) # "\n" THEN 0 ELSE 1 + NewlineRun(Tail(s))

\* re.sub(r'\n{3,}', '\n\n', text)
RECURSIVE LimitNewlines(_)
LimitNewlines(s) ==
  LET r == NewlineRun(s)
  IN  IF s = <<>> THEN <<>>
      ELSE IF r >= 3 THEN <<"\n", "\n">> \o LimitNewlines(SubSeq(s, r + 1, Len(s)))
      ELSE IF r >= 1 THEN SubSeq(s, 1, r) \o LimitNewlines(SubSeq(s, r + 1, Len(s)))
      ELSE <<Head(s)>> \o LimitNewlines(Tail(s))

\* text.replace('\r\n', '\n').replace('\r', '\n')
UnifyNewlines(s) == Replace(Replace(s, <<"\r", "\n">>, <<"\n">>), <<"\r">>, <<"\n">>)

\* the first loop: every line stripped, an empty line kept as ''
RECURSIVE StripLines(_)
StripLines(ls) ==
  IF ls = <<>> THEN <<>> ELSE <<Strip(Head(ls))>> \o StripLines(Tail(ls))

\* a second loop that keeps every line
DropRepeatedBlankNone(ls, prev_empty) == ls

\* the second loop: an empty line is kept only when the line before it was
\* not empty
RECURSIVE DropRepeatedBlank(_, _)
DropRepeatedBlank(ls, prev_empty) ==
  IF ls = <<>> THEN <<>>
  ELSE IF Head(ls) = <<>>
       THEN (IF prev_empty THEN <<>> ELSE <<Head(ls)>>)
            \o DropRepeatedBlank(Tail(ls), TRUE)
       ELSE <<Head(ls)>> \o DropRepeatedBlank(Tail(ls), FALSE)

clean_text(text) ==
  LET t1 == Unescape(text)
      t2 == UnifyNewlines(t1)
      t3 == LimitNewlines(t2)
      lines == StripLines(Split(t3, <<"\n">>))
      cleaned_lines == DropRepeatedBlank(lines, FALSE)
  IN  Join(cleaned_lines, <<"\n">>)

-----------------------------------------------------------------------------
(* process_paragraphs                                                      *)

min_chars_per_line == 30

\* the greedy re-wrap of the words of one long line; the state of the loop is
\* new_lines, current_line (a list of words) and current_length
RECURSIVE Rewrap(_, _, _, _, _)
Rewrap(words, new_lines, current_line, current_length, limit) ==
  IF words = <<>>
  THEN (IF current_line # <<>> THEN new_lines \o <<Join(current_line, <<" ">>)>>
        ELSE new_lines)
  ELSE LET word == Head(words)
       IN  IF current_length + Len(word) + 1 <= limit
           THEN Rewrap(Tail(words), new_lines, current_line \o <<word>>,
                       current_length + Len(word) + 1, limit)
           ELSE Rewrap(Tail(words),
                       IF current_line # <<>>
                       THEN new_lines \o <<Join(current_line, <<" ">>)>>
                       ELSE new_lines,
                       <<word>>, Len(word), limit)

\* one paragraph: a single line longer than the limit is re-wrapped, anything
\* else keeps its lines
ProcessParagraph(para, limit) ==
  LET lines == Split(para, <<"\n">>)
  IN  IF Len(lines) = 1 /\ Len(lines[1]) > limit
      THEN Join(Rewrap(Words(lines[1]), <<>>, <<>>, 0, limit), <<"\n">>)
      ELSE Join(lines, <<"\n">>)

RECURSIVE ProcessParagraphList(_, _)
ProcessParagraphList(paragraphs, limit) ==
  IF paragraphs = <<>> THEN <<>>
  ELSE (IF Strip(Head(paragraphs)) = <<>> THEN <<>>
        ELSE <<ProcessParagraph(Head(paragraphs), limit)>>)
       \o ProcessParagraphList(Tail(paragraphs), limit)

process_paragraphs(text) ==
  Join(ProcessParagraphList(Split(text, <<"\n", "\n">>), min_chars_per_line * 2),
       <<"\n", "\n">>)

-----------------------------------------------------------------------------
(* extract_metadata                                                        *)

\* the author when the file name gives none
UnknownAuthor == <<"MI", "SANG">>

\* the last index of character c in s; 0 when there is none
RFind(s, c) ==
  LET hits == {i \in 1..Len(s) : s[i] = c}
  IN  IF hits = {} THEN 0 ELSE CHOOSE i \in hits : \A j \in hits : j <= i

\* Path(filename).name on a POSIX path: the last component after splitting at
\* "/", the empty and "." components dropped
PathName(filename) ==
  LET parts == Split(filename, <<"/">>)
      kept == SelectSeq(parts, LAMBDA c : c # <<>> /\ c # <<".">>)
  IN  IF kept = <<>> THEN <<>> ELSE kept[Len(kept)]

\* Path(filename).stem: the name without its last suffix; a dot that starts
\* or ends the name starts no suffix
PathStem(filename) ==
  LET name == PathName(filename)
      i == RFind(name, ".")
  IN  IF 1 < i /\ i < Len(name) THEN SubSeq(name, 1, i - 1) ELSE name

\* re.search(r"(.+)\((.+)\)", name): <<group 1, group 2>>, or <<>> for no
\* match.  Both groups are greedy: group 2 ends at the last ")" and group 1 at
\* the last "(" that leaves group 2 a character.
ParenMatch(name) ==
  LET q == RFind(name, ")")
      opens == {p \in 2..(q - 2) : name[p] = "("}
      p == CHOOSE x \in opens : \A y \in opens : y <= x
  IN  IF opens = {} THEN <<>>
      ELSE <<SubSeq(name, 1, p - 1), SubSeq(name, p + 1, q - 1)>>

\* the characters re.sub(r'[\\/*?:"<>|]', "", title) deletes
UnsafeChars == {"\\", "/", "*", "?", ":", "\"", "<", ">", "|"}

RemoveUnsafe(title) == SelectSeq(title, LAMBDA c : c \notin UnsafeChars)

\* the rules with the "_" rule tried before the " - " rule
extract_metadata_underscore_first(filename) ==
  LET name == PathStem(filename)
      dash == <<" ", "-", " ">>
      ta == IF Contains(name, <<"_">>)
            THEN LET parts == Split1(name, <<"_">>)
                 IN  <<Strip(parts[1]), Strip(parts[2])>>
            ELSE IF Contains(name, dash)
            THEN LET parts == Split1(name, dash)
                 IN  <<Strip(parts[1]), Strip(parts[2])>>
            ELSE IF Contains(name, <<"(">>) /\ name # <<>> /\ name[Len(name)] = ")"
                    /\ ParenMatch(name) # <<>>
            THEN <<Strip(ParenMatch(name)[1]), Strip(ParenMatch(name)[2])>>
            ELSE <<name, UnknownAuthor>>
  IN  [title |-> ta[1], author |-> ta[2], safe_title |-> RemoveUnsafe(ta[1])]

extract_metadata(filename) ==
  LET name == PathStem(filename)
      dash == <<" ", "-", " ">>
      ta == IF Contains(name, dash)
            THEN LET parts == Split1(name, dash)
                 IN  <<Strip(parts[1]), Strip(parts[2])>>
            ELSE IF Contains(name, <<"_">>)
            THEN LET parts == Split1(name, <<"_">>)
                 IN  <<Strip(parts[1]), Strip(parts[2])>>
            ELSE IF Contains(name, <<"(">>) /\ name # <<>> /\ name[Len(name)] = ")"
                    /\ ParenMatch(name) # <<>>
            THEN <<Strip(ParenMatch(name)[1]), Strip(ParenMatch(name)[2])>>
            ELSE <<name, UnknownAuthor>>
  IN  [title |-> ta[1], author |-> ta[2], safe_title |-> RemoveUnsafe(ta[1])]

-----------------------------------------------------------------------------
(* detect_chapters                                                         *)

Digit == {"0", "1", "2", "3", "4", "5", "6", "7", "8", "9"}

\* the heading of the lines before the first chapter heading
StartHeading == <<"SI", "JAK">>

\* the heading of the single chapter of a text without chapters
BodyHeading == <<"BON", "MUN">>

\* the number of digits at the head of s
RECURSIVE DigitRun(_)
DigitRun(s) == IF s = <<>> \/ Head(s) \notin Digit THEN 0 ELSE 1 + DigitRun(Tail(s))

\* \s? : s without one leading whitespace character, when it has one
SkipOneWS(s) == IF s # <<>> /\ Head(s) \in WS THEN Tail(s) ELSE s

Drop(s, n) == SubSeq(s, n + 1, Len(s))

\* \d+ followed by rest: s without its leading digits, or <<"FAIL">>
AfterDigits(s) == IF DigitRun(s) = 0 THEN <<"FAIL">> ELSE Drop(s, DigitRun(s))

\* chapter_pattern.match(s):
\* ^(JE\s?\d+\s?[HWA JANG PYEON]|Chapter\s+\d+|\d+\.|JE\s*\d+\s*JANG)
ChapterMatch(s) ==
  LET chapter == <<"C", "h", "a", "p", "t", "e", "r">>
      a1 == IF s # <<>> /\ Head(s) = "JE"
            THEN SkipOneWS(AfterDigits(SkipOneWS(Tail(s)))) ELSE <<"FAIL">>
      a2 == IF StartsAt(s, chapter, 1) THEN Drop(s, 7) ELSE <<"FAIL">>
      a4 == IF s # <<>> /\ Head(s) = "JE"
            THEN LStrip(AfterDigits(LStrip(Tail(s)))) ELSE <<"FAIL">>
  IN  \/ a1 # <<>> /\ Head(a1) \in {"HWA", "JANG", "PYEON"}
      \/ a2 # <<>> /\ Head(a2) \in WS /\ DigitRun(LStrip(a2)) >= 1
      \/ DigitRun(s) >= 1 /\ Drop(s, DigitRun(s)) # <<>> /\ Head(Drop(s, DigitRun(s))) = "."
      \/ a4 # <<>> /\ Head(a4) = "JANG"

\* [html.escape(l.strip()) for l in lines if l.strip()]
RECURSIVE EscapedNonBlank(_)
EscapedNonBlank(lines) ==
  IF lines = <<>> THEN <<>>
  ELSE (IF Strip(Head(lines)) # <<>> THEN <<Escape(Strip(Head(lines)))>> ELSE <<>>)
       \o EscapedNonBlank(Tail(lines))

\* the loop without the reset of current_lines at a heading
RECURSIVE ChapterLoopNoReset(_, _, _, _)
ChapterLoopNoReset(lines, chapters, current_chapter, current_lines) ==
  IF lines = <<>>
  THEN (IF current_lines # <<>> THEN chapters \o <<<<current_chapter, current_lines>>>>
        ELSE chapters)
  ELSE LET line_stripped == Strip(Head(lines))
       IN  IF line_stripped = <<>>
           THEN ChapterLoopNoReset(Tail(lines), chapters, current_chapter, current_lines)
           ELSE IF ChapterMatch(line_stripped)
           THEN ChapterLoopNoReset(Tail(lines),
                                   IF current_lines # <<>>
                                   THEN chapters \o <<<<current_chapter, current_lines>>>>
                                   ELSE chapters,
                                   line_stripped, current_lines)
           ELSE ChapterLoopNoReset(Tail(lines), chapters, current_chapter,
                                   current_lines \o <<Escape(line_stripped)>>)

\* the loop of detect_chapters from its state (chapters, current_chapter,
\* current_lines) over the lines left, and the flush after it
RECURSIVE ChapterLoop(_, _, _, _)
ChapterLoop(lines, chapters, current_chapter, current_lines) ==
  IF lines = <<>>
  THEN (IF current_lines # <<>> THEN chapters \o <<<<current_chapter, current_lines>>>>
        ELSE chapters)
  ELSE LET line_stripped == Strip(Head(lines))
       IN  IF line_stripped = <<>>
           THEN ChapterLoop(Tail(lines), chapters, current_chapter, current_lines)
           ELSE IF ChapterMatch(line_stripped)
           THEN ChapterLoop(Tail(lines),
                            IF current_lines # <<>>
                            THEN chapters \o <<<<current_chapter, current_lines>>>>
                            ELSE chapters,
                            line_stripped, <<>>)
           ELSE ChapterLoop(Tail(lines), chapters, current_chapter,
                            current_lines \o <<Escape(line_stripped)>>)

detect_chapters(lines) ==
  LET chapters == ChapterLoop(lines, <<>>, StartHeading, <<>>)
  IN  IF chapters # <<>> THEN chapters
      ELSE <<<<BodyHeading, EscapedNonBlank(lines)>>>>

-----------------------------------------------------------------------------
(* detect_encoding                                                         *)
(* A bytes object is a sequence of bytes; an ASCII byte is written as its  *)
(* character and the byte 0xFF as the token "0xFF".                        *)

\* one byte decoded with errors='replace': ASCII is itself in every codec of
\* the model; 0xFF is y-diaeresis in latin-1 and cp1252 and invalid elsewhere
DecodeByte(b, encoding) ==
  IF b # "0xFF" THEN b
  ELSE IF encoding \in {"latin-1", "latin_1", "cp1252"} THEN "U+00FF"
  ELSE "U+FFFD"

\* file_content.decode(encoding, errors='replace')
RECURSIVE DecodeReplace(_, _)
DecodeReplace(file_content, encoding) ==
  IF file_content = <<>> THEN <<>>
  ELSE <<DecodeByte(Head(file_content), encoding)>>
       \o DecodeReplace(Tail(file_content), encoding)

\* whether bytes.decode(encoding, errors='replace') raises: the codecs of the
\* trial list all exist and 'replace' substitutes every undecodable byte
DecodeRaises(file_content, encoding) == FALSE

\* whether the buffer decodes strictly, as a charset_normalizer match does
StrictDecodable(file_content, encoding) ==
  \A i \in 1..Len(file_content) : DecodeByte(file_content[i], encoding) # "U+FFFD"

\* the encodings the statistical detection may name (charset_normalizer
\* spells them as Python codec names)
GuessEncodings == {"utf_8"}

\* What from_bytes(file_content).best() may do, as the library decides it:
\* return nothing, raise, or return a match naming an encoding under which
\* the buffer decodes.
DetectionOutcomes(file_content) ==
  {[kind |-> "none", encoding |-> ""], [kind |-> "raise", encoding |-> ""]}
  \cup {[kind |-> "match", encoding |-> e] :
          e \in {g \in GuessEncodings : StrictDecodable(file_content, g)}}

\* the encodings tried in order when detection gave nothing
TrialEncodings == <<"utf-8", "cp949", "euc-kr", "latin-1", "cp1252">>

\* the for loop of detect_encoding and the return after it
RECURSIVE TrialDecode(_, _)
TrialDecode(file_content, encodings) ==
  IF encodings = <<>> THEN <<"unknown", DecodeReplace(file_content, "utf-8")>>
  ELSE IF DecodeRaises(file_content, Head(encodings))
       THEN TrialDecode(file_content, Tail(encodings))
       ELSE <<Head(encodings), DecodeReplace(file_content, Head(encodings))>>

\* detect_encoding(file_content) under one outcome of the detection step:
\* <<encoding label, text>>
detect_encoding(file_content, detection) ==
  IF detection.kind = "match" /\ detection.encoding # ""
  THEN <<detection.encoding, DecodeReplace(file_content, detection.encoding)>>
  ELSE TrialDecode(file_content, TrialEncodings)

-----------------------------------------------------------------------------
(* build_single_epub                                                       *)
(* An archive is the sequence of zf.writestr calls, each an entry          *)
(* [name, compress_type, content].  A generated document is kept as the    *)
(* values interpolated into its template, not as markup text.              *)

DigitChars == <<"0", "1", "2", "3", "4", "5", "6", "7", "8", "9">>

\* the decimal digits of n
RECURSIVE Decimal(_)
Decimal(n) ==
  IF n < 10 THEN <<DigitChars[n + 1]>>
  ELSE Decimal(n \div 10) \o <<DigitChars[(n % 10) + 1]>>

\* f"{i:04d}": zero-padded to four digits, longer when i needs more
RECURSIVE ZeroPad(_, _)
ZeroPad(digits, width) ==
  IF Len(digits) >= width THEN digits ELSE ZeroPad(<<"0">> \o digits, width)

\* f"chapter_{i:04d}.xhtml"
ChapterFileName(i) == <<"chapter_">> \o ZeroPad(Decimal(i), 4) \o <<".xhtml">>

\* FONTS[...]["file"]
FontFile == "RIDIBatang.otf"

Entry(name, compress_type, content) ==
  [name |-> name, compress_type |-> compress_type, content |-> content]

\* the header of chapter i: the book title and the author line on the first
\* chapter only, the author line only for a known author
ChapterHeader(i, title, author) ==
  IF i = 0
  THEN [h1 |-> Escape(title),
        author |-> IF author # UnknownAuthor THEN Escape(author) ELSE <<>>]
  ELSE [h1 |-> <<>>, author |-> <<>>]

\* a chapter document whose body lines are escaped again when written
ChapterEntryEscapedAgain(i, chapters, title, author) ==
  Entry(<<"OEBPS/">> \o ChapterFileName(i), "ZIP_DEFLATED",
        [title |-> Escape(chapters[i + 1][1]),
         header |-> ChapterHeader(i, title, author),
         chapter_header |-> Escape(chapters[i + 1][1]),
         chapter_content |-> [n \in 1..Len(chapters[i + 1][2]) |->
                                Escape(chapters[i + 1][2][n])]])

\* the chapter document written for chapters[i + 1]
ChapterEntry(i, chapters, title, author) ==
  Entry(<<"OEBPS/">> \o ChapterFileName(i), "ZIP_DEFLATED",
        [title |-> Escape(chapters[i + 1][1]),
         header |-> ChapterHeader(i, title, author),
         chapter_header |-> Escape(chapters[i + 1][1]),
         chapter_content |-> chapters[i + 1][2]])

ManifestItem(i) == [id |-> <<"chap", i>>, href |-> ChapterFileName(i)]

SpineItem(i) == <<"chap", i>>

\* a navPoint numbered from 0
NavPointZeroBased(i, chapters) ==
  [id |-> <<"nav", i>>, playOrder |-> i,
   text |-> Escape(chapters[i + 1][1]), src |-> ChapterFileName(i)]

NavPoint(i, chapters) ==
  [id |-> <<"nav", i>>, playOrder |-> i + 1,
   text |-> Escape(chapters[i + 1][1]), src |-> ChapterFileName(i)]

\* the front entries with mimetype written like the others, compressed
FrontEntriesDeflated(cover_image) ==
  <<Entry(<<"mimetype">>, "ZIP_DEFLATED", "application/epub+zip"),
    Entry(<<"META-INF/container.xml">>, "ZIP_DEFLATED",
          [rootfile |-> <<"OEBPS/content.opf">>]),
    Entry(<<"OEBPS/fonts/", FontFile>>, "ZIP_DEFLATED", "font"),
    Entry(<<"OEBPS/style.css">>, "ZIP_DEFLATED", "css")>>
  \o (IF cover_image # "None"
      THEN <<Entry(<<"OEBPS/cover.jpg">>, "ZIP_DEFLATED", cover_image),
             Entry(<<"OEBPS/cover.xhtml">>, "ZIP_DEFLATED", "cover_xhtml")>>
      ELSE <<>>)

\* the entries written before the chapters, once the font has been read
FrontEntries(cover_image) ==
  <<Entry(<<"mimetype">>, "ZIP_STORED", "application/epub+zip"),
    Entry(<<"META-INF/container.xml">>, "ZIP_DEFLATED",
          [rootfile |-> <<"OEBPS/content.opf">>]),
    Entry(<<"OEBPS/fonts/", FontFile>>, "ZIP_DEFLATED", "font"),
    Entry(<<"OEBPS/style.css">>, "ZIP_DEFLATED", "css")>>
  \o (IF cover_image # "None"
      THEN <<Entry(<<"OEBPS/cover.jpg">>, "ZIP_DEFLATED", cover_image),
             Entry(<<"OEBPS/cover.xhtml">>, "ZIP_DEFLATED", "cover_xhtml")>>
      ELSE <<>>)

\* The archive the with block writes (lines 393-525): the front entries, one
\* entry per chapter, toc.ncx and content.opf, in the order of the writestr
\* calls.
Package(book_id, title, author, chapters, cover_image) ==
  LET k == Len(chapters)
      has_cover == cover_image # "None"
      cover_manifest == IF has_cover
                        THEN <<[id |-> <<"cover-img">>, href |-> <<"cover.jpg">>],
                               [id |-> <<"cover-xhtml">>, href |-> <<"cover.xhtml">>]>>
                        ELSE <<>>
      cover_meta == IF has_cover THEN <<"cover-img">> ELSE <<>>
      cover_spine == IF has_cover THEN <<<<"cover-xhtml">>>> ELSE <<>>
      manifest_items == [n \in 1..k |-> ManifestItem(n - 1)]
      spine_items == cover_spine \o [n \in 1..k |-> SpineItem(n - 1)]
      ncx_navpoints == [n \in 1..k |-> NavPoint(n - 1, chapters)]
      ncx == [uid |-> book_id, docTitle |-> Escape(title), navMap |-> ncx_navpoints]
      font_item == [id |-> <<"font">>, href |-> <<"fonts/", FontFile>>]
      opf == [title |-> Escape(title), creator |-> Escape(author),
              language |-> "ko", identifier |-> book_id, cover_meta |-> cover_meta,
              manifest |-> <<[id |-> <<"ncx">>, href |-> <<"toc.ncx">>],
                             [id |-> <<"css">>, href |-> <<"style.css">>]>>
                           \o cover_manifest \o manifest_items \o <<font_item>>,
              spine |-> spine_items]
  IN  FrontEntries(cover_image)
      \o [n \in 1..k |-> ChapterEntry(n - 1, chapters, title, author)]
      \o <<Entry(<<"OEBPS/toc.ncx">>, "ZIP_DEFLATED", ncx),
           Entry(<<"OEBPS/content.opf">>, "ZIP_DEFLATED", opf)>>

\* the chapters of the cleaned lines (lines 350-353)
SplitChapters(use_chapter_split, lines) ==
  IF use_chapter_split THEN detect_chapters(lines)
  ELSE <<<<BodyHeading, EscapedNonBlank(lines)>>>>

\* the st.info report of a detected encoding other than utf-8 (lines 338-339);
\* <<>> is no report
EncodingInfo(file_name, detected_encoding) ==
  IF detected_encoding # "utf-8" THEN <<file_name, detected_encoding>> ELSE <<>>

\* the try block from the cleaning of the text on (lines 335-528), given the
\* metadata and the (detected_encoding, text) pair
TryBlockFrom(file_name, meta, decoded, cover_image, use_chapter_split, env) ==
  [result |-> <<meta.safe_title,
                Package(env.uuid, meta.title, meta.author,
                        SplitChapters(use_chapter_split,
                                      SplitLines(process_paragraphs(clean_text(decoded[2])))),
                        cover_image)>>,
   exception |-> IF env.font_opens THEN "" ELSE "FileNotFoundError",
   info |-> EncodingInfo(file_name, decoded[1])]

\* The try block of build_single_epub.  env is what the call meets outside
\* the program: the outcome of the detection step, whether the font file
\* opens, and the uuid4 drawn.
\* Returns [result, exception, info]: result is <<safe_title, archive>>,
\* exception the exception raised inside the block ("" for none: open() of a
\* missing font file raises), info the st.info report made before it.
TryBlock(file_name, file_content, cover_image, use_chapter_split, env) ==
  TryBlockFrom(file_name, extract_metadata(file_name),
               detect_encoding(file_content, env.detection),
               cover_image, use_chapter_split, env)

\* the except clause (lines 530-532): an exception of the try block is
\* reported with st.error and None is returned
ExceptClause(file_name, try) ==
  IF try.exception = ""
  THEN [result |-> try.result, error |-> <<>>, info |-> try.info, raised |-> FALSE]
  ELSE [result |-> <<>>, error |-> <<file_name, try.exception>>,
        info |-> try.info, raised |-> FALSE]

\* an exception of the try block leaves the call
NoExceptClause(try) ==
  IF try.exception = ""
  THEN [result |-> try.result, error |-> <<>>, info |-> try.info, raised |-> FALSE]
  ELSE [result |-> <<>>, error |-> <<>>, info |-> try.info, raised |-> TRUE]

\* build_single_epub without its except clause
build_single_epub_no_except(file_name, file_content, cover_image, use_chapter_split, env) ==
  NoExceptClause(TryBlock(file_name, file_content, cover_image, use_chapter_split, env))

\* build_single_epub: the try block, and the except clause that reports the
\* exception with st.error and returns None.
\* Returns [result, error, info, raised]: result is <<safe_title, archive>> or
\* <<>> for None, error the st.error report, info the st.info report, raised
\* whether an exception leaves the call (except Exception catches it).
build_single_epub(file_name, file_content, cover_image, use_chapter_split, env) ==
  ExceptClause(file_name, TryBlock(file_name, file_content, cover_image, use_chapter_split, env))

-----------------------------------------------------------------------------
(* State.                                                                  *)

VARIABLES
  pc,                \* the call in progress, or "done"
  \* convert_all_files
  files_data,        \* the (file_name, file_content) pairs
  cover_images,      \* the cover list; <<>> is None
  use_chapter_split,
  idx,               \* the number of loop iterations finished
  converted_files,
  errors,            \* the st.error reports, in order
  infos,             \* the st.info reports, in order
  progress,          \* the last progress_bar.progress value, as <<done, total>>
  next_uuid,         \* uuid4 never repeats: the draws are numbered
  returned,          \* the value convert_all_files returned
  \* extract_metadata
  filename, metadata,
  \* detect_chapters
  lines, chapters,
  \* clean_text
  text, first_pass, passes,
  \* detect_encoding
  file_content, detection, decoded,
  \* process_paragraphs
  paragraph_text,    \* the text argument
  processed_text     \* the value returned

batchVars == <<files_data, cover_images, use_chapter_split, idx, converted_files,
               errors, infos, progress, next_uuid, returned>>
metaVars == <<filename, metadata>>
chapterVars == <<lines, chapters>>
cleanVars == <<text, first_pass, passes>>
encodingVars == <<file_content, detection, decoded>>
paragraphVars == <<paragraph_text, processed_text>>
vars == <<pc, batchVars, metaVars, chapterVars, cleanVars, encodingVars, paragraphVars>>

\* the variables of the calls a specification does not make
BatchIdle ==
  /\ files_data = <<>> /\ cover_images = <<>> /\ use_chapter_split = TRUE
  /\ idx = 0 /\ converted_files = <<>> /\ errors = <<>> /\ infos = <<>>
  /\ progress = <<0, 0>> /\ next_uuid = 0 /\ returned = <<>>
MetaIdle ==
  /\ filename = <<>>
  /\ metadata = [title |-> <<>>, author |-> <<>>, safe_title |-> <<>>]
ChapterIdle == lines = <<>> /\ chapters = <<>>
CleanIdle == text = <<>> /\ first_pass = <<>> /\ passes = 0
EncodingIdle ==
  /\ file_content = <<>>
  /\ detection = [kind |-> "none", encoding |-> ""]
  /\ decoded = <<"", <<>>>>
ParagraphIdle == paragraph_text = <<>> /\ processed_text = <<>>

\* all sequences over S of length at most n
RECURSIVE SeqsUpTo(_, _)
SeqsUpTo(S, n) ==
  IF n = 0 THEN {<<>>}
  ELSE LET shorter == SeqsUpTo(S, n - 1)
       IN  shorter \cup {<<x>> \o q : x \in S, q \in {r \in shorter : Len(r) = n - 1}}

\* the concatenation of a sequence of sequences
RECURSIVE Flatten(_)
Flatten(ss) == IF ss = <<>> THEN <<>> ELSE Head(ss) \o Flatten(Tail(ss))

-----------------------------------------------------------------------------
(* extract_metadata on every file name of a bounded set.                   *)

MaxStem == 5

\* the characters the stems are made of: a letter, the characters the rules
\* look for and one of the characters safe_title drops
StemChars == {"A", " ", "-", "_", "(", ")", "*"}

TxtSuffix == <<".", "t", "x", "t">>

\* the file names the documentation gives as examples, one of them with a
\* path separator
SampleFilenames ==
  { <<"A", "l", "p", "h", "a", " ", "-", " ", "B", "e", "t", "a">> \o TxtSuffix,
    <<"A", "l", "p", "h", "a", "_", "B", "e", "t", "a">> \o TxtSuffix,
    <<"A", "l", "p", "h", "a", "(", "B", "e", "t", "a", ")">> \o TxtSuffix,
    <<"A", "l", "p", "h", "a">> \o TxtSuffix,
    <<"A", "/", "B", "*", "C">> \o TxtSuffix }

\* every non-empty stem of at most MaxStem characters with the .txt suffix,
\* and the samples
Filenames ==
  {stem \o TxtSuffix : stem \in SeqsUpTo(StemChars, MaxStem) \ {<<>>}} \cup SampleFilenames

InitMeta ==
  /\ pc = "extract_metadata"
  /\ filename \in Filenames
  /\ metadata = [title |-> <<>>, author |-> <<>>, safe_title |-> <<>>]
  /\ BatchIdle /\ ChapterIdle /\ CleanIdle /\ EncodingIdle /\ ParagraphIdle

ExtractMetadata ==
  /\ pc = "extract_metadata"
  /\ metadata' = extract_metadata(filename)
  /\ pc' = "done"
  /\ UNCHANGED <<filename, batchVars, chapterVars, cleanVars, encodingVars, paragraphVars>>

NextMeta == ExtractMetadata

SpecMeta == InitMeta /\ [][NextMeta]_vars

-----------------------------------------------------------------------------
(* detect_chapters on every bounded sequence of sample lines.              *)

MaxLines == 4

\* blank lines, body lines (one padded, with a character html.escape
\* rewrites), a heading for each alternative of the pattern, and a line that
\* only looks like a heading
SampleLines ==
  { <<>>,
    <<" ">>,
    <<"x">>,
    <<" ", "<", "y", " ">>,
    <<"C", "h", "a", "p", "t", "e", "r", " ", "1">>,
    <<"2", ".">>,
    <<"JE", "1", "HWA">>,
    <<"JE", " ", " ", "3", " ", "JANG">>,
    <<"C", "h", "a", "p", "t", "e", "r", "1">> }

InitChapters ==
  /\ pc = "detect_chapters"
  /\ lines \in SeqsUpTo(SampleLines, MaxLines)
  /\ chapters = <<>>
  /\ BatchIdle /\ MetaIdle /\ CleanIdle /\ EncodingIdle /\ ParagraphIdle

DetectChapters ==
  /\ pc = "detect_chapters"
  /\ chapters' = detect_chapters(lines)
  /\ pc' = "done"
  /\ UNCHANGED <<lines, batchVars, metaVars, cleanVars, encodingVars, paragraphVars>>

NextChapters == DetectChapters

SpecChapters == InitChapters /\ [][NextChapters]_vars

-----------------------------------------------------------------------------
(* clean_text applied again and again to a bounded text.                   *)

MaxPieces == 5
MaxPasses == 2

\* the pieces the texts are made of: a letter, a blank, the two line ends, an
\* escaped ampersand and the tail of an escaped "<"
TextPieces ==
  { <<"a">>, <<" ">>, <<"\n">>, <<"\r">>,
    <<"&", "a", "m", "p", ";">>, <<"l", "t", ";">> }

Texts == {Flatten(ps) : ps \in SeqsUpTo(TextPieces, MaxPieces)}

InitClean ==
  /\ pc = "clean_text"
  /\ text \in Texts
  /\ first_pass = <<>>
  /\ passes = 0
  /\ BatchIdle /\ MetaIdle /\ ChapterIdle /\ EncodingIdle /\ ParagraphIdle

\* text = clean_text(text), keeping the value before the call in first_pass
CleanText ==
  /\ pc = "clean_text"
  /\ passes < MaxPasses
  /\ first_pass' = text
  /\ text' = clean_text(text)
  /\ passes' = passes + 1
  /\ UNCHANGED <<pc, batchVars, metaVars, chapterVars, encodingVars, paragraphVars>>

NextClean == CleanText

SpecClean == InitClean /\ [][NextClean]_vars

-----------------------------------------------------------------------------
(* detect_encoding on every bounded buffer and detection outcome.          *)

MaxBytes == 3

SampleBytes == {"a", "\n", "0xFF"}

InitEncoding ==
  /\ pc = "detect_encoding"
  /\ file_content \in SeqsUpTo(SampleBytes, MaxBytes)
  /\ detection \in DetectionOutcomes(file_content)
  /\ decoded = <<"", <<>>>>
  /\ BatchIdle /\ MetaIdle /\ ChapterIdle /\ CleanIdle /\ ParagraphIdle

DetectEncoding ==
  /\ pc = "detect_encoding"
  /\ decoded' = detect_encoding(file_content, detection)
  /\ pc' = "done"
  /\ UNCHANGED <<file_content, detection, batchVars, metaVars, chapterVars, cleanVars, paragraphVars>>

NextEncoding == DetectEncoding

SpecEncoding == InitEncoding /\ [][NextEncoding]_vars

-----------------------------------------------------------------------------
(* process_paragraphs on every text of a bounded set.                      *)

MaxWords == 5

\* a word of n copies of the character c
Word(c, n) == [i \in 1..n |-> c]

\* The pieces of the texts: words of 1, 29, 30 and 61 characters, the space
\* and the line break.  Two or three of the middle words with a short one
\* make a line longer than 2 * min_chars_per_line, the long word is longer
\* than that by itself, and two line breaks in a row separate paragraphs.
ParagraphPieces ==
  { <<"a">>, Word("b", 29), Word("c", 30), Word("d", 61), <<" ">>, <<"\n">> }

ParagraphTexts == {Flatten(ps) : ps \in SeqsUpTo(ParagraphPieces, MaxWords)}

InitParagraphs ==
  /\ pc = "process_paragraphs"
  /\ paragraph_text \in ParagraphTexts
  /\ processed_text = <<>>
  /\ BatchIdle /\ MetaIdle /\ ChapterIdle /\ CleanIdle /\ EncodingIdle

ProcessParagraphs ==
  /\ pc = "process_paragraphs"
  /\ processed_text' = process_paragraphs(paragraph_text)
  /\ pc' = "done"
  /\ UNCHANGED <<paragraph_text, batchVars, metaVars, chapterVars, cleanVars,
                 encodingVars>>

NextParagraphs == ProcessParagraphs

SpecParagraphs == InitParagraphs /\ [][NextParagraphs]_vars

-----------------------------------------------------------------------------
(* convert_all_files on every bounded batch.                               *)

MaxFiles == 3

\* the bytes of an ASCII text are its characters
Doc(name, content) == <<name \o TxtSuffix, content>>

\* The documents of the batches: one with two chapters and a title - author
\* name, one without headings and with markup characters, one that is a
\* single heading with an undecodable byte after it and has markup characters
\* in its title and author, one with text before its only heading, which has
\* a markup character.
Docs ==
  { Doc(<<"A", " ", "-", " ", "B">>,
        <<"1", ".", "\n", "x", "\r", "\n", "2", ".", "\n", "y">>),
    Doc(<<"C", "*", "_", "D">>, <<"a", "<", "b", "\n", "\n", "\n", "\n", "c">>),
    Doc(<<"E", "&", "(", "F", "<", ")">>, <<"1", ".", "\n", "0xFF">>),
    Doc(<<"G">>, <<"p", "\n", "2", ".", "<", "\n", "q">>) }

\* the cover lists: None, a list with a cover for the first file and a None
\* entry for the second, and a list with a None entry for the first file and
\* a cover for the second; both lists are shorter than the longest batches
CoverLists == {<<>>, <<"img1", "None">>, <<"None", "img2">>}

\* whether no two files of the batch have the same name (the upload form
\* drops repeated names)
UniqueNames(fs) == \A i, j \in 1..Len(fs) : fs[i][1] = fs[j][1] => i = j

Init ==
  /\ pc = "convert_all_files"
  /\ files_data \in {fs \in SeqsUpTo(Docs, MaxFiles) : UniqueNames(fs)}
  /\ cover_images \in CoverLists
  /\ use_chapter_split \in BOOLEAN
  /\ idx = 0
  /\ converted_files = <<>>
  /\ errors = <<>>
  /\ infos = <<>>
  /\ progress = <<0, Len(files_data)>>
  /\ next_uuid = 0
  /\ returned = <<>>
  /\ MetaIdle /\ ChapterIdle /\ CleanIdle /\ EncodingIdle /\ ParagraphIdle

\* the first cover of the list given to every file
CurrentCoverFirst(covers, i) ==
  IF covers # <<>> THEN covers[1] ELSE "None"

\* the cover of the file at index i (0-based): cover_images[i] when the list
\* is given and long enough, else None
CurrentCover(covers, i) ==
  IF covers # <<>> /\ i < Len(covers) THEN covers[i + 1] ELSE "None"

\* a loop that appends every result, None included
AppendResultKeepNone(converted, result) == Append(converted, result)

\* if result: converted_files.append(result)
AppendResult(converted, result) ==
  IF result # <<>> THEN Append(converted, result) ELSE converted

\* One iteration of the loop of convert_all_files: the file at idx is built
\* with its cover, a result is appended, the progress bar advances.  An
\* exception leaving build_single_epub would leave convert_all_files too.
ConvertFile ==
  /\ pc = "convert_all_files"
  /\ idx < Len(files_data)
  /\ \E d \in DetectionOutcomes(files_data[idx + 1][2]), font_opens \in BOOLEAN :
       \E built \in {build_single_epub(files_data[idx + 1][1], files_data[idx + 1][2],
                                        CurrentCover(cover_images, idx), use_chapter_split,
                                        [detection |-> d, font_opens |-> font_opens,
                                         uuid |-> next_uuid])} :
           /\ infos' = IF built.info # <<>> THEN Append(infos, built.info) ELSE infos
           /\ errors' = IF built.error # <<>> THEN Append(errors, built.error) ELSE errors
           /\ IF built.raised
              THEN /\ pc' = "raised"
                   /\ UNCHANGED <<converted_files, idx, progress>>
              ELSE /\ converted_files' = AppendResult(converted_files, built.result)
                   /\ idx' = idx + 1
                   /\ progress' = <<idx + 1, Len(files_data)>>
                   /\ pc' = pc
  /\ next_uuid' = next_uuid + 1
  /\ UNCHANGED <<files_data, cover_images, use_chapter_split, returned,
                 metaVars, chapterVars, cleanVars, encodingVars, paragraphVars>>

\* the loop is over: return converted_files
ConvertReturn ==
  /\ pc = "convert_all_files"
  /\ idx = Len(files_data)
  /\ returned' = converted_files
  /\ pc' = "done"
  /\ UNCHANGED <<files_data, cover_images, use_chapter_split, idx, converted_files,
                 errors, infos, progress, next_uuid,
                 metaVars, chapterVars, cleanVars, encodingVars, paragraphVars>>

Next == ConvertFile \/ ConvertReturn

Spec == Init /\ [][Next]_vars

-----------------------------------------------------------------------------
(* Properties of convert_all_files (specification Spec).                   *)

N == Len(files_data)

\* the names of the files reported with st.error
FailedNames == {errors[i][1] : i \in 1..Len(errors)}

\* the input indices (1-based) among the first n whose file was not reported
SucceededIdx(n) == SelectSeq([i \in 1..n |-> i], LAMBDA i : files_data[i][1] \notin FailedNames)

\* C1 as claimed: when convert_all_files returns, the returned sequence has
\* one entry for every input document, N in all, failures included.
C1_OneOutcomePerInput ==
  pc = "done" => Len(returned) = N

\* C1 amended: when convert_all_files returns, every input document is either
\* reported once with st.error or has exactly one entry in the returned
\* sequence; the returned entries are those of the documents that were not
\* reported, in input order, so the sequence has N minus the number of
\* failures entries.
C1_OneOutcomePerInputAmended ==
  pc = "done" =>
    LET ok == SucceededIdx(N)
    IN  /\ Len(returned) + Len(errors) = N
        /\ Len(returned) = Len(ok)
        /\ \A j \in 1..Len(ok) :
             returned[j][1] = extract_metadata(files_data[ok[j]][1]).safe_title
        /\ \A i, j \in 1..Len(errors) : errors[i][1] = errors[j][1] => i = j
        /\ \A i \in 1..Len(errors) : \E f \in 1..N : files_data[f][1] = errors[i][1]

\* a batch of three returned with two failures and one success
C1_Witness ==
  pc = "done" /\ N = 3 /\ Len(errors) = 2 /\ Len(returned) = 1

\* C2: no exception leaves convert_all_files, and when it returns after
\* exactly one document failed in packaging, all N documents were attempted
\* and the returned sequence is the N-1 results of the other documents, each
\* the (safe_title, archive) its own build yields, in input order.
C2_BatchIsolation ==
  /\ pc # "raised"
  /\ (pc = "done" /\ Len(errors) = 1) =>
       LET ok == SucceededIdx(N)
       IN  /\ idx = N
           /\ progress = <<N, N>>
           /\ Len(returned) = N - 1
           /\ Len(ok) = N - 1
           /\ \A j \in 1..(N - 1) :
                \E d \in DetectionOutcomes(files_data[ok[j]][2]) :
                  returned[j] =
                    TryBlock(files_data[ok[j]][1], files_data[ok[j]][2],
                             CurrentCover(cover_images, ok[j] - 1), use_chapter_split,
                             [detection |-> d, font_opens |-> TRUE,
                              uuid |-> ok[j] - 1]).result

\* a batch of three returned after its second document alone failed
C2_Witness ==
  /\ pc = "done" /\ N = 3 /\ Len(errors) = 1
  /\ errors[1][1] = files_data[2][1]
  /\ Len(returned) = 2

\* the archives built so far
Archives == {converted_files[j][2] : j \in 1..Len(converted_files)}

IsChapterName(name) == Len(name) >= 2 /\ name[2] = "chapter_"

ChapterEntries(a) == SelectSeq(a, LAMBDA e : IsChapterName(e.name))

\* the content of the entry of archive a named n
ContentOf(a, n) == a[CHOOSE i \in 1..Len(a) : a[i].name = n].content

HasEntry(a, n) == \E i \in 1..Len(a) : a[i].name = n

ChapterItems(opf) == SelectSeq(opf.manifest, LAMBDA it : it.id[1] = "chap")

ChapterRefs(opf) == SelectSeq(opf.spine, LAMBDA r : r # <<"cover-xhtml">>)

\* the number of chapters of a document: the chapters of its decoded,
\* cleaned text
ChapterCount(content, split) ==
  IF split
  THEN Len(detect_chapters(SplitLines(process_paragraphs(clean_text(
             DecodeReplace(content, "utf-8"))))))
  ELSE 1

\* C9: in every archive built, the chapter documents, the navPoints of
\* toc.ncx, the chapter items of the manifest and the spine itemrefs other
\* than the cover's are equally many, as many as the document has chapters;
\* the i-th of each names the same chapter file, and the playOrder values
\* are 1..k in order.
C9_ArchiveCounts ==
  \A j \in 1..Len(converted_files) :
    LET a == converted_files[j][2]
        files == ChapterEntries(a)
        k == Len(files)
        opf == ContentOf(a, <<"OEBPS/content.opf">>)
        ncx == ContentOf(a, <<"OEBPS/toc.ncx">>)
        items == ChapterItems(opf)
        refs == ChapterRefs(opf)
    IN  /\ k = ChapterCount(files_data[SucceededIdx(idx)[j]][2], use_chapter_split)
        /\ Len(ncx.navMap) = k
        /\ Len(items) = k
        /\ Len(refs) = k
        /\ \A i \in 1..k :
             /\ files[i].name = <<"OEBPS/">> \o items[i].href
             /\ refs[i] = items[i].id
             /\ ncx.navMap[i].src = items[i].href
             /\ ncx.navMap[i].playOrder = i
             /\ \A i2 \in 1..k : items[i2].href = items[i].href => i2 = i

\* an archive with a cover and two chapters has been built
C9_Witness ==
  \E a \in Archives :
    /\ Len(ChapterEntries(a)) = 2
    /\ HasEntry(a, <<"OEBPS/cover.xhtml">>)
    /\ Len(ContentOf(a, <<"OEBPS/content.opf">>).spine) = 3

\* C10: in every archive built, the first entry is mimetype, stored without
\* compression with content application/epub+zip, every other entry comes
\* after it, and META-INF/container.xml and OEBPS/content.opf are present.
C10_MimetypeFirst ==
  \A a \in Archives :
    /\ a[1].name = <<"mimetype">>
    /\ a[1].compress_type = "ZIP_STORED"
    /\ a[1].content = "application/epub+zip"
    /\ \A i \in 2..Len(a) : a[i].name # <<"mimetype">>
    /\ HasEntry(a, <<"META-INF/container.xml">>)
    /\ HasEntry(a, <<"OEBPS/content.opf">>)
    /\ \E i, j \in 2..Len(a) :
         /\ i < j /\ j = Len(a)
         /\ a[i].name = <<"META-INF/container.xml">>
         /\ a[j].name = <<"OEBPS/content.opf">>

\* an archive with a cover has been returned beside a failure
C10_Witness ==
  /\ pc = "done" /\ Len(errors) >= 1
  /\ \E j \in 1..Len(returned) : HasEntry(returned[j][2], <<"OEBPS/cover.jpg">>)

\* the cover the document at input index i (1-based) is to be built with:
\* the entry of the cover list at its index when a list is given, the index
\* is within it and the entry is not None
CoverAtIndex(i) ==
  IF cover_images # <<>> /\ i <= Len(cover_images) /\ cover_images[i] # "None"
  THEN cover_images[i]
  ELSE "None"

IsCoverItem(it) == it.id \in {<<"cover-img">>, <<"cover-xhtml">>}

\* C14: every archive built has the cover of its document's input index,
\* whatever happened to the documents before it: with a cover at that index
\* it holds OEBPS/cover.jpg with that image and OEBPS/cover.xhtml, and the
\* cover itemref is the first of the spine and occurs once; with no cover at
\* that index it holds neither entry, no cover item and no cover itemref.
C14_CoverAlignment ==
  \A j \in 1..Len(converted_files) :
    LET a == converted_files[j][2]
        cover == CoverAtIndex(SucceededIdx(idx)[j])
        opf == ContentOf(a, <<"OEBPS/content.opf">>)
    IN  IF cover # "None"
        THEN /\ HasEntry(a, <<"OEBPS/cover.jpg">>)
             /\ ContentOf(a, <<"OEBPS/cover.jpg">>) = cover
             /\ HasEntry(a, <<"OEBPS/cover.xhtml">>)
             /\ opf.spine[1] = <<"cover-xhtml">>
             /\ \A n \in 2..Len(opf.spine) : opf.spine[n] # <<"cover-xhtml">>
             /\ Len(opf.spine) >= 2
        ELSE /\ ~HasEntry(a, <<"OEBPS/cover.jpg">>)
             /\ ~HasEntry(a, <<"OEBPS/cover.xhtml">>)
             /\ \A n \in 1..Len(opf.spine) : opf.spine[n] # <<"cover-xhtml">>
             /\ \A n \in 1..Len(opf.manifest) : ~IsCoverItem(opf.manifest[n])
             /\ opf.cover_meta = <<>>

\* a batch of three returned after its first document failed: the second
\* document has the cover of the second list entry, the third, beyond the
\* list, has none
C14_Witness ==
  /\ pc = "done" /\ N = 3 /\ cover_images = <<"None", "img2">>
  /\ Len(errors) = 1 /\ errors[1][1] = files_data[1][1]
  /\ Len(returned) = 2
  /\ ContentOf(returned[1][2], <<"OEBPS/cover.jpg">>) = "img2"
  /\ ~HasEntry(returned[2][2], <<"OEBPS/cover.jpg">>)

\* the non-blank lines of a document's normalized text, stripped, before any
\* escaping
RawLines(content) ==
  LET ls == SplitLines(process_paragraphs(clean_text(DecodeReplace(content, "utf-8"))))
      kept == SelectSeq(ls, LAMBDA l : Strip(l) # <<>>)
  IN  [n \in 1..Len(kept) |-> Strip(kept[n])]

\* the raw lines that end up as body lines: the lines that are not headings,
\* or every line when chapters are not split or no line is a body line
RawBodyLines(raw, split) ==
  LET body == SelectSeq(raw, LAMBDA l : ~ChapterMatch(l))
  IN  IF split /\ body # <<>> THEN body ELSE raw

\* the raw texts a chapter can be headed by
RawHeadings(raw) ==
  {StartHeading, BodyHeading} \cup {raw[n] : n \in {m \in 1..Len(raw) : ChapterMatch(raw[m])}}

\* C11: in every archive built, the body lines in the chapter documents are
\* the document's raw body lines with html.escape applied once, in order;
\* each chapter's heading in h2, in title and in its navLabel is one raw
\* heading with html.escape applied once; and the book title in h1, docTitle
\* and dc:title and the author in the author line and dc:creator are the
\* metadata's title and author with html.escape applied once.
C11_EscapedOnce ==
  \A j \in 1..Len(converted_files) :
    LET a == converted_files[j][2]
        doc == files_data[SucceededIdx(idx)[j]]
        meta == extract_metadata(doc[1])
        lines_raw == RawLines(doc[2])
        raw == RawBodyLines(lines_raw, use_chapter_split)
        headings == RawHeadings(lines_raw)
        files == ChapterEntries(a)
        opf == ContentOf(a, <<"OEBPS/content.opf">>)
        ncx == ContentOf(a, <<"OEBPS/toc.ncx">>)
    IN  /\ Flatten([n \in 1..Len(files) |-> files[n].content.chapter_content])
             = [m \in 1..Len(raw) |-> Escape(raw[m])]
        /\ \A n \in 1..Len(files) :
             \E h \in headings :
               /\ files[n].content.chapter_header = Escape(h)
               /\ files[n].content.title = Escape(h)
               /\ ncx.navMap[n].text = Escape(h)
        /\ files[1].content.header.h1 = Escape(meta.title)
        /\ files[1].content.header.author =
             (IF meta.author # UnknownAuthor THEN Escape(meta.author) ELSE <<>>)
        /\ ncx.docTitle = Escape(meta.title)
        /\ opf.title = Escape(meta.title)
        /\ opf.creator = Escape(meta.author)

\* archives have been built, with and without chapter splitting, in which
\* escaping changes a body line, a chapter heading, the title and the author
C11_Witness ==
  /\ \E a \in Archives :
       \E n \in 1..Len(ChapterEntries(a)) :
         /\ ChapterEntries(a)[n].content.chapter_header = <<"2", ".", "&", "l", "t", ";">>
         /\ ContentOf(a, <<"OEBPS/toc.ncx">>).navMap[n].text = <<"2", ".", "&", "l", "t", ";">>
  /\ \E a \in Archives :
       /\ ContentOf(a, <<"OEBPS/content.opf">>).title = <<"E", "&", "a", "m", "p", ";">>
       /\ ContentOf(a, <<"OEBPS/content.opf">>).creator = <<"F", "&", "l", "t", ";">>
  /\ \E a \in Archives :
       ChapterEntries(a)[1].content.chapter_content[1] = <<"a", "&", "l", "t", ";", "b">>

-----------------------------------------------------------------------------
(* Properties of detect_chapters (specification SpecChapters).             *)

IsHeadingLine(l) == Strip(l) # <<>> /\ ChapterMatch(Strip(l))

IsBodyLine(l) == Strip(l) # <<>> /\ ~ChapterMatch(Strip(l))

\* the indices of the heading lines
HeadingIdx == {i \in 1..Len(lines) : IsHeadingLine(lines[i])}

\* the index of the j-th heading line
NthHeading(j) == CHOOSE i \in HeadingIdx : Cardinality({h \in HeadingIdx : h < i}) = j - 1

\* the index of the first heading line after line i, or the end
NextHeading(i) ==
  LET later == {h \in HeadingIdx : h > i}
  IN  IF later = {} THEN Len(lines) + 1 ELSE CHOOSE h \in later : \A g \in later : h <= g

\* C3 as claimed: when no line matches the heading pattern, detect_chapters
\* returns exactly one chapter, headed BodyHeading, whose body is every
\* non-blank line, stripped and escaped, in order.
C3_FallbackBodyHeading ==
  (pc = "done" /\ HeadingIdx = {}) =>
    chapters = <<<<BodyHeading, EscapedNonBlank(lines)>>>>

\* C4: when the first non-blank line is a heading and every heading has a
\* body line before the next heading or the end, detect_chapters returns one
\* chapter per heading line, in order, headed by that line (stripped, not
\* escaped) with the escaped non-blank lines up to the next heading as body.
C4_SegmentationOrder ==
  ( /\ pc = "done"
    /\ HeadingIdx # {}
    /\ \A i \in 1..Len(lines) : IsBodyLine(lines[i]) => \E h \in HeadingIdx : h < i
    /\ \A h \in HeadingIdx : \E i \in (h + 1)..(NextHeading(h) - 1) : IsBodyLine(lines[i]) )
  => /\ Len(chapters) = Cardinality(HeadingIdx)
     /\ \A j \in 1..Len(chapters) :
          LET h == NthHeading(j)
          IN  /\ chapters[j][1] = Strip(lines[h])
              /\ chapters[j][2] =
                   [n \in 1..Len(SelectSeq(SubSeq(lines, h + 1, NextHeading(h) - 1),
                                           LAMBDA l : Strip(l) # <<>>)) |->
                      Escape(Strip(SelectSeq(SubSeq(lines, h + 1, NextHeading(h) - 1),
                                             LAMBDA l : Strip(l) # <<>>)[n]))]

\* two headings, each with one body line, the second body line padded and
\* with a character that is escaped
C4_Witness ==
  /\ pc = "done"
  /\ lines = << <<"C", "h", "a", "p", "t", "e", "r", " ", "1">>, <<"x">>,
                <<"2", ".">>, <<" ", "<", "y", " ">> >>
  /\ chapters = << << <<"C", "h", "a", "p", "t", "e", "r", " ", "1">>, << <<"x">> >> >>,
                   << <<"2", ".">>, << <<"&", "l", "t", ";", "y">> >> >> >>

\* whether no body line stands between heading line h and the next heading
\* or the end
HasEmptyBody(h) == \A i \in (h + 1)..(NextHeading(h) - 1) : ~IsBodyLine(lines[i])

\* C12 as claimed: every heading line yields a chapter of detect_chapters:
\* the chapters of the heading lines are the last chapters of the result, one
\* per heading line in order, each headed by its line, and the chapter of a
\* heading with no body line before the next heading or the end has an empty
\* body.
C12_EmptyBodyChaptersKept ==
  pc = "done" =>
    LET K == Cardinality(HeadingIdx)
        first == Len(chapters) - K
    IN  /\ first >= 0
        /\ \A j \in 1..K :
             /\ chapters[first + j][1] = Strip(lines[NthHeading(j)])
             /\ HasEmptyBody(NthHeading(j)) => chapters[first + j][2] = <<>>

-----------------------------------------------------------------------------
(* Properties of extract_metadata (specification SpecMeta).                *)

Dash == <<" ", "-", " ">>

\* the file name without its last extension, as the claims take the stem
NameWithoutExtension(f) ==
  IF RFind(f, ".") = 0 THEN f ELSE SubSeq(f, 1, RFind(f, ".") - 1)

\* title and author are the stripped parts of stem around the first sep
SplitsAtFirst(stem, sep) ==
  \E i \in 1..Len(stem) :
    /\ StartsAt(stem, sep, i)
    /\ \A j \in 1..(i - 1) : ~StartsAt(stem, sep, j)
    /\ metadata.title = Strip(SubSeq(stem, 1, i - 1))
    /\ metadata.author = Strip(SubSeq(stem, i + Len(sep), Len(stem)))

\* stem is X(Y) with X and Y not empty
HasParenForm(stem) ==
  /\ Len(stem) >= 4
  /\ stem[Len(stem)] = ")"
  /\ \E p \in 2..(Len(stem) - 2) : stem[p] = "("

\* title and author are the stripped X and Y of a reading of stem as X(Y)
SplitsAtParen(stem) ==
  \E p \in 2..(Len(stem) - 2) :
    /\ stem[p] = "("
    /\ metadata.title = Strip(SubSeq(stem, 1, p - 1))
    /\ metadata.author = Strip(SubSeq(stem, p + 1, Len(stem) - 1))

\* the first rule that matches the stem decides, and no later one
RulesInOrder(stem) ==
  IF \E i \in 1..Len(stem) : StartsAt(stem, Dash, i) THEN SplitsAtFirst(stem, Dash)
  ELSE IF \E i \in 1..Len(stem) : stem[i] = "_" THEN SplitsAtFirst(stem, <<"_">>)
  ELSE IF HasParenForm(stem) THEN SplitsAtParen(stem)
  ELSE metadata.title = stem /\ metadata.author = UnknownAuthor

IsTrimmed(s) == Strip(s) = s

\* C5 as claimed: the first matching rule decides title and author, and
\* title and author have no surrounding whitespace.
C5_MetadataPrecedence ==
  pc = "done" =>
    /\ RulesInOrder(PathStem(filename))
    /\ IsTrimmed(metadata.title)
    /\ IsTrimmed(metadata.author)

\* C5 amended: the first matching rule decides title and author; they are
\* trimmed when one of the first three rules applies, and under the fourth
\* the title is the whole stem, surrounding whitespace included.
C5_MetadataPrecedenceAmended ==
  pc = "done" =>
    /\ RulesInOrder(PathStem(filename))
    /\ ( \/ Contains(PathStem(filename), Dash)
         \/ Contains(PathStem(filename), <<"_">>)
         \/ HasParenForm(PathStem(filename)) )
       => IsTrimmed(metadata.title) /\ IsTrimmed(metadata.author)

\* a stem with " - " after a "_" and a closing parenthesis at its end was
\* split at the " - "
C5_Witness ==
  /\ pc = "done"
  /\ filename = <<"_", " ", "-", " ", ")">> \o TxtSuffix
  /\ metadata.title = <<"_">>
  /\ metadata.author = <<")">>

\* C6 as claimed: safe_title is the title with the characters \ / * ? : " < > |
\* deleted and the others kept in order, the title being taken from the file
\* name with only its extension removed; A/B*C.txt gives safe_title ABC.
C6_SafeTitleDeletion ==
  pc = "done" =>
    /\ metadata.safe_title = SelectSeq(metadata.title, LAMBDA c : c \notin UnsafeChars)
    /\ RulesInOrder(NameWithoutExtension(filename))
    /\ filename = <<"A", "/", "B", "*", "C">> \o TxtSuffix
         => metadata.safe_title = <<"A", "B", "C">>

-----------------------------------------------------------------------------
(* Properties of clean_text (specification SpecClean).                     *)

\* C7 as claimed: clean_text(clean_text(x)) = clean_text(x) for every x.
C7_CleanTextIdempotent ==
  passes >= 2 => text = first_pass

\* C7 amended: clean_text(clean_text(x)) = clean_text(x) for every x whose
\* clean_text(x) holds no character reference left to un-escape, that is
\* html.unescape(clean_text(x)) = clean_text(x).
C7_CleanTextIdempotentAmended ==
  (passes >= 2 /\ Unescape(first_pass) = first_pass) => text = first_pass

\* a text with an ampersand and a paragraph break was cleaned twice
C7_Witness ==
  /\ passes = 2
  /\ Unescape(first_pass) = first_pass
  /\ Contains(first_pass, <<"&">>)
  /\ Contains(first_pass, <<"\n", "\n">>)
  /\ text = first_pass

-----------------------------------------------------------------------------
(* Properties of detect_encoding (specification SpecEncoding).             *)

\* C8 as claimed: detect_encoding returns a (label, text) pair, and when the
\* detection step returns nothing or raises, the label is "unknown".
C8_UnknownLabel ==
  pc = "done" =>
    /\ Len(decoded) = 2
    /\ detection.kind \in {"none", "raise"} => decoded[1] = "unknown"

-----------------------------------------------------------------------------
(* Properties of process_paragraphs (specification SpecParagraphs).        *)

\* the re-flow threshold
Threshold == 2 * min_chars_per_line

\* the paragraphs of the argument that are not blank, in order
InputParagraphs ==
  SelectSeq(Split(paragraph_text, <<"\n", "\n">>), LAMBDA p : Strip(p) # <<>>)

\* the paragraphs of the returned text
OutputParagraphs == Split(processed_text, <<"\n", "\n">>)

\* a paragraph that is one line longer than the threshold
IsLongSingleLine(p) == ~Contains(p, <<"\n">>) /\ Len(p) > Threshold

\* the whitespace-delimited words of the lines ls, in order
WordsOfLines(ls) == Flatten([n \in 1..Len(ls) |-> Words(ls[n])])

\* C13 as claimed: process_paragraphs returns one paragraph per non-blank
\* paragraph of its argument; for a paragraph that is a single line longer
\* than the threshold every produced line is at most the threshold long and
\* the words of the produced lines are the words of the line in order; a
\* paragraph of several lines is returned unchanged.
C13_ReflowLineBound ==
  (pc = "done" /\ InputParagraphs # <<>>) =>
    /\ Len(OutputParagraphs) = Len(InputParagraphs)
    /\ \A j \in 1..Len(InputParagraphs) :
         LET p == InputParagraphs[j]
             produced == Split(OutputParagraphs[j], <<"\n">>)
         IN  /\ IsLongSingleLine(p) =>
                  /\ \A n \in 1..Len(produced) : Len(produced[n]) <= Threshold
                  /\ WordsOfLines(produced) = Words(p)
             /\ Contains(p, <<"\n">>) => OutputParagraphs[j] = p

=============================================================================
